---------------------------- MODULE Spec2Model ----------------------------
(***************************************************************************)
(* A model of noise2noise's MRI dataset tool (dataset_tool_mri.py: genpng, *)
(* undersample_kspace, fftshift2d) and of its PSNR statistics script       *)
(* (psnrstats.py: main).                                                   *)
(*                                                                         *)
(* Floating-point numbers are exact rationals n/d plus the IEEE specials   *)
(* nan, -inf and +inf.  Arrays are records [shape, a] whose cells are      *)
(* indexed from 0 as in numpy.  Strings are sequences of one-character     *)
(* strings.  A call that can raise returns a record [err, arr].            *)
(***************************************************************************)
EXTENDS Integers, Sequences, FiniteSets, TLC

VARIABLES
    \* genpng
    pc, args, dirCreated, globbed, nii_files, fi, loads, img, name, hborder,
    s, slice, output, outDir, savedBy, hist, rng, err, exitStatus,
    \* composite / clamp applied to one slice
    p_pc, p_slice, p_canvas, p_raster,
    \* fftshift2d applied forward and back
    f_pc, f_x, f_y, f_z,
    \* psnrstats.main
    t_pc, t_file, t_values, t_indices, t_stats, t_trace, t_err, t_ret

gvars == <<pc, args, dirCreated, globbed, nii_files, fi, loads, img, name,
           hborder, s, slice, output, outDir, savedBy, hist, rng, err,
           exitStatus>>
pvars == <<p_pc, p_slice, p_canvas, p_raster>>
fvars == <<f_pc, f_x, f_y, f_z>>
tvars == <<t_pc, t_file, t_values, t_indices, t_stats, t_trace, t_err, t_ret>>
vars == <<gvars, pvars, fvars, tvars>>

-----------------------------------------------------------------------------
(* Program constants and model bounds *)

\* The side of the output canvas.  The source sets 256; the model runs the
\* same code on a reduced canvas.
OUT_RESOLUTION == 3

slice_min == 25

slice_max == 125

\* Most entries glob returns.
MaxFiles == 2

\* Largest axis length of the arrays given to fftshift2d.
MaxShiftDim == 5

\* Most lines of a PSNR log.
MaxLines == 3

None == "None"

-----------------------------------------------------------------------------
(* Floating-point values *)

Abs(n) == IF n < 0 THEN -n ELSE n

RECURSIVE GCD(_, _)
GCD(a, b) == IF b = 0 THEN a ELSE GCD(b, a % b)

\* The rational n/d (d # 0) in lowest terms with a positive denominator.
Fin(n, d) ==
    LET g == GCD(Abs(n), Abs(d))
        sg == IF d < 0 THEN -1 ELSE 1
    IN [k |-> "fin", n |-> sg * (n \div g), d |-> sg * (d \div g)]

NaN == [k |-> "nan", n |-> 0, d |-> 1]
NegInf == [k |-> "-inf", n |-> 0, d |-> 1]
PosInf == [k |-> "+inf", n |-> 0, d |-> 1]
Zero == Fin(0, 1)
One == Fin(1, 1)

\* The order of -inf, the finite values and +inf.
Rank(v) == CASE v.k = "-inf" -> 0 [] v.k = "fin" -> 1 [] v.k = "+inf" -> 2

\* a < b; False when either is nan, as every IEEE comparison with nan.
Lt(a, b) ==
    IF a.k = "fin" /\ b.k = "fin" THEN a.n * b.d < b.n * a.d
    ELSE a.k # "nan" /\ b.k # "nan" /\ Rank(a) < Rank(b)

Gt(a, b) == Lt(b, a)

\* np.minimum / np.maximum on two scalars: nan propagates.
NpMinimum(a, b) ==
    IF a.k = "nan" \/ b.k = "nan" THEN NaN ELSE IF Lt(b, a) THEN b ELSE a

NpMaximum(a, b) ==
    IF a.k = "nan" \/ b.k = "nan" THEN NaN ELSE IF Lt(a, b) THEN b ELSE a

\* v * c for an integer c > 0.
Scale(v, c) == IF v.k = "fin" THEN Fin(v.n * c, v.d) ELSE v

\* a / b for finite a and b: x/0 is nan, -inf or +inf.
Divide(a, b) ==
    IF b.n # 0 THEN Fin(a.n * b.d, a.d * b.n)
    ELSE IF a.n = 0 THEN NaN
    ELSE IF a.n < 0 THEN NegInf ELSE PosInf

NpAbs(v) ==
    CASE v.k = "nan" -> NaN
      [] v.k \in {"-inf", "+inf"} -> PosInf
      [] v.k = "fin" -> Fin(Abs(v.n), v.d)

-----------------------------------------------------------------------------
(* Arrays *)

Cells(r, c) == (0 .. r - 1) \X (0 .. c - 1)

\* The r x c array whose cells are those of the function f on Cells(r, c).
Arr(r, c, f) == [shape |-> <<r, c>>, a |-> [ij \in Cells(r, c) |-> f[ij]]]

Rows(x) == x.shape[1]
Cols(x) == x.shape[2]

NoArr == [shape |-> <<0, 0>>, a |-> <<>>]

\* np.max over a non-empty set of values: nan if any is nan.
MaxOf(S) ==
    IF \E v \in S : v.k = "nan" THEN NaN
    ELSE CHOOSE m \in S : \A v \in S : ~Lt(m, v)

NpMax(x) == MaxOf({x.a[ij] : ij \in DOMAIN x.a})

\* np.concatenate([x[s0:, :], x[:s0, :]], axis=0) for 0 <= s0 <= rows.
RollRows(x, s0) ==
    Arr(Rows(x), Cols(x),
        [ij \in Cells(Rows(x), Cols(x)) |->
            IF ij[1] < Rows(x) - s0 THEN x.a[<<ij[1] + s0, ij[2]>>]
            ELSE x.a[<<ij[1] - (Rows(x) - s0), ij[2]>>]])

\* np.concatenate([x[:, s1:], x[:, :s1]], axis=1) for 0 <= s1 <= cols.
RollCols(x, s1) ==
    Arr(Rows(x), Cols(x),
        [ij \in Cells(Rows(x), Cols(x)) |->
            IF ij[2] < Cols(x) - s1 THEN x.a[<<ij[1], ij[2] + s1>>]
            ELSE x.a[<<ij[1], ij[2] - (Cols(x) - s1)>>]])

-----------------------------------------------------------------------------
(* fftshift2d *)

\* ShiftSplit without the ifft case: both directions split at n // 2 + 1.
ShiftSplitSame(n, ifft) == (n \div 2) + 1

\* The split point on an axis of length n.
ShiftSplit(n, ifft) == (n \div 2) + (IF ifft THEN 0 ELSE 1)

fftshift2d(x, ifft) ==
    IF ~(\A k \in 1 .. 2 : x.shape[k] % 2 = 1)
    THEN [err |-> "AssertionError", arr |-> NoArr]
    ELSE [err |-> "none",
          arr |-> RollCols(RollRows(x, ShiftSplit(Rows(x), ifft)),
                           ShiftSplit(Cols(x), ifft))]

-----------------------------------------------------------------------------
(* The canvas compositor and the range clamper of genpng *)

Min2(a, b) == IF a < b THEN a ELSE b
Max2(a, b) == IF a < b THEN b ELSE a

\* (res - dim) // 2: Python's floor division.
HalfBorder(res, dim) == (res - dim) \div 2

\* (np.asarray([OUT_RESOLUTION, OUT_RESOLUTION]) - shape[0:2]) // 2
hborderOf(shape) ==
    <<HalfBorder(OUT_RESOLUTION, shape[1]), HalfBorder(OUT_RESOLUTION, shape[2])>>

\* np.zeros([r, c])
NpZeros(r, c) == Arr(r, c, [ij \in Cells(r, c) |-> Zero])

\* numpy's reading of a bound i of the slice a:b on an axis of length n: a
\* negative bound counts from the end, and every bound is clipped to 0 .. n.
NpBound(i, n) == IF i < 0 THEN Max2(i + n, 0) ELSE Min2(i, n)

\* out[r0:r1, c0:c1] = val.  The selected region is what numpy's slicing
\* leaves of the bounds; val must have the region's shape, or length 1 on an
\* axis (broadcast), else numpy raises ValueError.
SetRegion(out, r0, r1, c0, c1, val) ==
    LET rs == NpBound(r0, Rows(out))
        rl == Max2(NpBound(r1, Rows(out)) - rs, 0)
        cs == NpBound(c0, Cols(out))
        cl == Max2(NpBound(c1, Cols(out)) - cs, 0)
    IN IF ~(/\ Rows(val) \in {rl, 1}
            /\ Cols(val) \in {cl, 1})
       THEN [err |-> "ValueError", arr |-> NoArr]
       ELSE [err |-> "none",
             arr |-> Arr(Rows(out), Cols(out),
                [ij \in Cells(Rows(out), Cols(out)) |->
                    IF /\ rs <= ij[1] /\ ij[1] < rs + rl
                       /\ cs <= ij[2] /\ ij[2] < cs + cl
                    THEN val.a[<<IF Rows(val) = 1 THEN 0 ELSE ij[1] - rs,
                                 IF Cols(val) = 1 THEN 0 ELSE ij[2] - cs>>]
                    ELSE out.a[ij]])]

\* Composite with the two borders exchanged.
CompositeSwapped(slc, hb, shape) ==
    SetRegion(NpZeros(OUT_RESOLUTION, OUT_RESOLUTION),
              hb[2], hb[2] + shape[1], hb[1], hb[1] + shape[2], slc)

\* output = np.zeros([OUT_RESOLUTION, OUT_RESOLUTION])
\* output[hb[0] : hb[0] + shape[0], hb[1] : hb[1] + shape[1]] = slice
Composite(slc, hb, shape) ==
    SetRegion(NpZeros(OUT_RESOLUTION, OUT_RESOLUTION),
              hb[1], hb[1] + shape[1], hb[2], hb[2] + shape[2], slc)

\* ClampValue without np.maximum(., 0.0).
ClampValueNoFloor(v) == Scale(NpMinimum(v, One), 255)

\* One cell through np.minimum(., 1.0), np.maximum(., 0.0) and * 255.
ClampValue(v) == Scale(NpMaximum(NpMinimum(v, One), Zero), 255)

ClampScale(out) ==
    Arr(Rows(out), Cols(out),
        [ij \in Cells(Rows(out), Cols(out)) |-> ClampValue(out.a[ij])])

\* if np.max(output) > 1.0
ShouldWriteNonzero(out) == Gt(NpMax(out), Zero)

ShouldWrite(out) == Gt(NpMax(out), One)

-----------------------------------------------------------------------------
(* Variables of the parts a specification does not run *)

IdleGenpng ==
    /\ pc = "idle" /\ args = None /\ dirCreated = FALSE /\ globbed = FALSE
    /\ nii_files = <<>> /\ fi = 0 /\ loads = 0 /\ img = None /\ name = <<>>
    /\ hborder = <<0, 0>> /\ s = 0 /\ slice = NoArr /\ output = NoArr
    /\ outDir = {} /\ savedBy = {} /\ hist = <<>> /\ rng = None
    /\ err = "none" /\ exitStatus = None

IdlePipe ==
    p_pc = "idle" /\ p_slice = NoArr /\ p_canvas = NoArr /\ p_raster = NoArr

IdleShift == f_pc = "idle" /\ f_x = NoArr /\ f_y = NoArr /\ f_z = NoArr

IdleStats ==
    /\ t_pc = "idle" /\ t_file = <<>> /\ t_values = <<>> /\ t_indices = <<>>
    /\ t_stats = <<>> /\ t_trace = <<>> /\ t_err = "none" /\ t_ret = None

-----------------------------------------------------------------------------
(* fftshift2d forward, then inverse, on one array *)

\* The r x c array whose cell (i, j) holds off + i*c + j: every cell differs.
IndexArr(r, c, off) ==
    Arr(r, c, [ij \in Cells(r, c) |-> Fin(off + ij[1] * c + ij[2], 1)])

ShiftInputs ==
    {IndexArr(r, c, off) : r \in 1 .. MaxShiftDim, c \in 1 .. MaxShiftDim,
                           off \in {0, 7}}

InitShift ==
    /\ f_pc = "start" /\ f_x \in ShiftInputs /\ f_y = NoArr /\ f_z = NoArr
    /\ IdleGenpng /\ IdlePipe /\ IdleStats

\* y = fftshift2d(x)
ShiftForward ==
    /\ f_pc = "start"
    /\ LET r == fftshift2d(f_x, FALSE)
       IN /\ f_pc' = IF r.err = "none" THEN "shifted" ELSE "failed"
          /\ f_y' = r.arr
    /\ UNCHANGED <<f_x, f_z, gvars, pvars, tvars>>

\* z = fftshift2d(y, ifft=True)
ShiftInverse ==
    /\ f_pc = "shifted"
    /\ LET r == fftshift2d(f_y, TRUE)
       IN /\ f_pc' = IF r.err = "none" THEN "done" ELSE "failed"
          /\ f_z' = r.arr
    /\ UNCHANGED <<f_x, f_y, gvars, pvars, tvars>>

NextShift == ShiftForward \/ ShiftInverse

SpecShift == InitShift /\ [][NextShift]_vars

-----------------------------------------------------------------------------
(* The compositor and the clamper on one slice *)

Samples ==
    <<Fin(-1, 5), Zero, Fin(1, 256), Fin(1, 2), One, Fin(3, 2), NaN, NegInf>>

\* The w x h slice whose cells run through Samples from position off.
SampleArr(w, h, off) ==
    Arr(w, h, [ij \in Cells(w, h) |->
                  Samples[((off + ij[1] * h + ij[2]) % Len(Samples)) + 1]])

PipeInputs ==
    {SampleArr(w, h, off) : w \in 1 .. OUT_RESOLUTION + 1,
                            h \in 1 .. OUT_RESOLUTION + 1,
                            off \in 0 .. Len(Samples) - 1}

InitPipe ==
    /\ p_pc = "start" /\ p_slice \in PipeInputs
    /\ p_canvas = NoArr /\ p_raster = NoArr
    /\ IdleGenpng /\ IdleShift /\ IdleStats

\* genpng, lines 77-78, on p_slice
PipeComposite ==
    /\ p_pc = "start"
    /\ LET r == Composite(p_slice, hborderOf(p_slice.shape), p_slice.shape)
       IN /\ p_pc' = IF r.err = "none" THEN "composited" ELSE "failed"
          /\ p_canvas' = r.arr
    /\ UNCHANGED <<p_slice, p_raster, gvars, fvars, tvars>>

\* genpng, lines 79-81, on the canvas
PipeClamp ==
    /\ p_pc = "composited"
    /\ p_raster' = ClampScale(p_canvas)
    /\ p_pc' = "clamped"
    /\ UNCHANGED <<p_slice, p_canvas, gvars, fvars, tvars>>

NextPipe == PipeComposite \/ PipeClamp

SpecPipe == InitPipe /\ [][NextPipe]_vars

-----------------------------------------------------------------------------
(* genpng: names *)

\* os.path.basename(nii_file) of the file with the given stem.
Basename(stem) == stem \o <<".", "n", "i", "i", ".", "g", "z">>

\* str.split(".")[0]: the characters before the first "." (all, if none).
RECURSIVE SplitFirst(_)
SplitFirst(str) ==
    IF str = <<>> \/ Head(str) = "." THEN <<>>
    ELSE <<Head(str)>> \o SplitFirst(Tail(str))

DigitChars == <<"0", "1", "2", "3", "4", "5", "6", "7", "8", "9">>

\* "%d" % n for n >= 0
RECURSIVE Decimal(_)
Decimal(n) ==
    IF n < 10 THEN <<DigitChars[n + 1]>>
    ELSE Decimal(n \div 10) \o <<DigitChars[(n % 10) + 1]>>

\* "%03d" % n: zero-padded on the left to at least three digits.
RECURSIVE PadZero(_, _)
PadZero(str, width) ==
    IF Len(str) >= width THEN str ELSE PadZero(<<"0">> \o str, width)

Fmt03d(n) == PadZero(Decimal(n), 3)

\* "%s_%03d.png" % (name, s), the file's name inside out_directory.
OutName(nm, idx) == nm \o <<"_">> \o Fmt03d(idx) \o <<".", "p", "n", "g">>

-----------------------------------------------------------------------------
(* genpng: volumes *)

\* The raw sample (x, y, z) of a volume [shape, fill, lo, hi], with
\* k = x + width * y:
\*   "zero"   0 everywhere;
\*   "ramp"   1 + k at the depths lo .. hi - 1, 0 elsewhere;
\*   "bands"  256 at depth lo, k - 1 (negative, zero and positive samples)
\*            at the depths lo + 1 .. hi - 1, 1 elsewhere.
Voxel(vol, x, y, z) ==
    LET k == x + vol.shape[1] * y
    IN CASE vol.fill = "zero" -> 0
         [] vol.fill = "ramp" -> IF vol.lo <= z /\ z < vol.hi THEN 1 + k ELSE 0
         [] vol.fill = "bands" ->
              IF z = vol.lo THEN 256
              ELSE IF vol.lo < z /\ z < vol.hi THEN k - 1 ELSE 1

Vol(w, h, d, fill, lo, hi) ==
    [shape |-> <<w, h, d>>, fill |-> fill, lo |-> lo, hi |-> hi]

NoVol == Vol(0, 0, 0, "none", 0, 0)

\* The volumes nib.load can return: one with an even and an odd axis whose
\* first and last slices of the window are blank; one as large as the
\* canvas with a bright, a signed and a dim band; an all-zero one whose
\* depth ends inside the window; one larger than the canvas.
Volumes ==
    { Vol(2, 3, slice_max + 1, "ramp", slice_min + 1, slice_max - 1),
      Vol(OUT_RESOLUTION, OUT_RESOLUTION, slice_max, "bands",
          slice_min, slice_min + 50),
      Vol(1, 2, slice_min + 2, "zero", 0, 0),
      Vol(OUT_RESOLUTION + 1, 1, slice_max, "ramp", 0, slice_max) }

\* np.max(img) of the raw volume.
VolMax(vol) ==
    LET S == {Voxel(vol, x, y, z) : x \in 0 .. vol.shape[1] - 1,
                                    y \in 0 .. vol.shape[2] - 1,
                                    z \in 0 .. vol.shape[3] - 1}
    IN CHOOSE m \in S : \A v \in S : v <= m

\* img = img / np.max(img), kept as the raw volume and its divisor.
Normalized(vol) == [vol |-> vol, max |-> VolMax(vol)]

\* What lines 67-68 can leave in img.
LoadedImages == {Normalized(vol) : vol \in Volumes}

\* img[:, :, z] of a normalized volume, for 0 <= z < depth.
DepthSlice(im, z) ==
    Arr(im.vol.shape[1], im.vol.shape[2],
        [ij \in Cells(im.vol.shape[1], im.vol.shape[2]) |->
            Divide(Fin(Voxel(im.vol, ij[1], ij[2], z), 1), Fin(im.max, 1))])

-----------------------------------------------------------------------------
(* genpng: undersample_kspace *)

Seeds == {0, 1}

MaskKinds == <<"all", "none", "mixed">>

\* The mask np.random.rand(...) < mask_fraction drawn as the n-th draw of the
\* process-wide generator seeded with seed: every cell True, every cell
\* False, or some of each.
Draw(r) == MaskKinds[((r.seed + r.n) % Len(MaskKinds)) + 1]

\* np.abs(ifft2(ifftshift(fftshift(fft2(slice)) * mask))).  A non-finite
\* cell makes every cell nan.  With every cell of the mask True the result is
\* |slice|, with every cell False it is zero.  The Fourier arithmetic of a
\* partly True mask is not computed: the model takes 3/2 |slice|, one array
\* of the input's shape that is non-negative, zero for a zero slice and
\* outside the input's range.  np.fft.fftshift and ifftshift take any length.
undersampleOddOnly(slc, kind) ==
    IF Rows(slc) % 2 = 0 \/ Cols(slc) % 2 = 0
    THEN [err |-> "AssertionError", arr |-> NoArr]
    ELSE [err |-> "none", arr |-> slc]

undersample_kspace(slc, kind) ==
    LET bad == \E c \in DOMAIN slc.a : slc.a[c].k # "fin"
    IN [err |-> "none",
        arr |-> Arr(Rows(slc), Cols(slc),
           [ij \in Cells(Rows(slc), Cols(slc)) |->
               IF bad THEN NaN
               ELSE CASE kind = "all" -> NpAbs(slc.a[ij])
                      [] kind = "none" -> Zero
                      [] kind = "mixed" ->
                           Fin(3 * Abs(slc.a[ij].n), 2 * slc.a[ij].d)])]

-----------------------------------------------------------------------------
(* genpng *)

Stems == {<<"a">>, <<"a", ".", "b">>, <<"b">>}

\* What glob.glob(os.path.join(mri_directory, "*.nii.gz")) can return: the
\* files of one directory, each once, in any order.
FileLists ==
    {fl \in UNION {[1 .. n -> {Basename(st) : st \in Stems}] : n \in 0 .. MaxFiles} :
        \A i, j \in DOMAIN fl : i # j => fl[i] # fl[j]}

ArgSets ==
    [outdir : {None, "out"}, ixi_dir : {None, "ixi"}, undersample : BOOLEAN]

MissingArgsOutdirOnly(a) == a.outdir = None

\* args.outdir is None or args.ixi_dir is None
MissingArgs(a) == a.outdir = None \/ a.ixi_dir = None

Init ==
    /\ pc = "start"
    /\ args \in ArgSets
    /\ rng \in [seed : Seeds, n : {0}]
    /\ (MissingArgs(args) \/ ~args.undersample) => rng.seed = 0
    /\ dirCreated = FALSE /\ globbed = FALSE /\ nii_files = <<>> /\ fi = 0
    /\ loads = 0 /\ img = [vol |-> NoVol, max |-> 0] /\ name = <<>>
    /\ hborder = <<0, 0>> /\ s = 0
    /\ slice = NoArr /\ output = NoArr /\ outDir = {} /\ savedBy = {}
    /\ hist = <<>> /\ err = "none" /\ exitStatus = None
    /\ IdlePipe /\ IdleShift /\ IdleStats

\* lines 46-51: a missing directory argument ends the process with status 1.
CheckArgs ==
    /\ pc = "start"
    /\ IF MissingArgs(args)
       THEN pc' = "exited" /\ exitStatus' = 1
       ELSE pc' = "makedirs" /\ UNCHANGED exitStatus
    /\ UNCHANGED <<args, dirCreated, globbed, nii_files, fi, loads, img, name,
                   hborder, s, slice, output, outDir, savedBy, hist, rng, err,
                   pvars, fvars, tvars>>

\* line 55: os.makedirs(out_directory, exist_ok=True); it raises OSError
\* when the directory cannot be created.
MakeDirs ==
    /\ pc = "makedirs"
    /\ \E ok \in BOOLEAN :
          IF ok
          THEN pc' = "glob" /\ dirCreated' = TRUE
               /\ UNCHANGED <<err, exitStatus>>
          ELSE pc' = "crashed" /\ err' = "OSError" /\ exitStatus' = 1
               /\ UNCHANGED dirCreated
    /\ UNCHANGED <<args, globbed, nii_files, fi, loads, img, name, hborder, s,
                   slice, output, outDir, savedBy, hist, rng,
                   pvars, fvars, tvars>>

\* line 57
Glob ==
    /\ pc = "glob"
    /\ nii_files' \in FileLists
    /\ globbed' = TRUE
    /\ fi' = 1
    /\ pc' = "file"
    /\ UNCHANGED <<args, dirCreated, loads, img, name, hborder, s, slice,
                   output, outDir, savedBy, hist, rng, err, exitStatus,
                   pvars, fvars, tvars>>

\* lines 59-69 for the next file: nib.load raises on an unreadable file; else
\* the name, the border and the normalized volume are set and the depth loop
\* starts.
LoadVolume ==
    /\ pc = "file"
    /\ fi <= Len(nii_files)
    /\ loads' = loads + 1
    /\ \/ /\ pc' = "crashed" /\ err' = "IOError" /\ exitStatus' = 1
          /\ UNCHANGED <<img, name, hborder, s, hist>>
       \/ \E im \in LoadedImages :
             /\ name' = SplitFirst(nii_files[fi])
             /\ hborder' = hborderOf(im.vol.shape)
             /\ img' = im
             /\ s' = slice_min
             /\ hist' = <<>>
             /\ pc' = "slice"
             /\ UNCHANGED <<err, exitStatus>>
    /\ UNCHANGED <<args, dirCreated, globbed, nii_files, fi, slice, output,
                   outDir, savedBy, rng, pvars, fvars, tvars>>

\* range(slice_min, slice_max): the index after v, and the end of the range.
RangeNext(v) == v + 1

RangeDoneInclusive(v) == v > slice_max

RangeDone(v) == v >= slice_max

\* The run's state after an exception of the given kind escapes genpng
\* during the loop body for index s.
Raised(kind, slc, out, r) ==
    [pc |-> "crashed", err |-> kind, exitStatus |-> 1, s |-> s,
     slice |-> slc, output |-> out, rng |-> r,
     outDir |-> outDir, savedBy |-> savedBy, outcome |-> kind]

\* The run's state after the loop body ends normally for index s.
Stepped(outcome, slc, out, r, dir, by) ==
    [pc |-> "slice", err |-> err, exitStatus |-> exitStatus,
     s |-> RangeNext(s), slice |-> slc, output |-> out, rng |-> r,
     outDir |-> dir, savedBy |-> by, outcome |-> outcome]

\* lines 72-85, the loop body for index s, with an image writer that
\* succeeds.
SliceStep ==
    LET shape == img.vol.shape
    IN
    IF s >= shape[3] THEN Raised("IndexError", slice, output, rng)
    ELSE
    LET raw == DepthSlice(img, s)
        masked == IF args.undersample
                  THEN undersample_kspace(raw, Draw(rng))
                  ELSE [err |-> "none", arr |-> raw]
        rng1 == IF args.undersample THEN [rng EXCEPT !.n = @ + 1] ELSE rng
    IN
    IF masked.err # "none" THEN Raised(masked.err, slice, output, rng)
    ELSE
    LET comp == Composite(masked.arr, hborder, <<shape[1], shape[2]>>)
    IN
    IF comp.err # "none"
    THEN Raised(comp.err, masked.arr,
                NpZeros(OUT_RESOLUTION, OUT_RESOLUTION), rng1)
    ELSE
    LET out == ClampScale(comp.arr)
        outname == OutName(name, s)
    IN
    IF ShouldWrite(out)
    THEN Stepped("written", masked.arr, out, rng1,
                 outDir \cup {outname},
                 savedBy \cup {[name |-> outname, file |-> fi, s |-> s]})
    ELSE Stepped("skipped", masked.arr, out, rng1, outDir, savedBy)

\* One iteration of the loop of line 71.  The save of line 85, when it is
\* reached, either succeeds or raises (an unwritable output path).
ProcessSlice ==
    /\ pc = "slice"
    /\ ~RangeDone(s)
    /\ \E r \in {SliceStep} :
       \E saveOk \in IF r.outcome = "written" THEN BOOLEAN ELSE {TRUE} :
       \E q \in {IF saveOk THEN r
                 ELSE Raised("IOError", r.slice, r.output, r.rng)} :
          /\ pc' = q.pc /\ err' = q.err /\ exitStatus' = q.exitStatus
          /\ s' = q.s /\ slice' = q.slice /\ output' = q.output
          /\ rng' = q.rng /\ outDir' = q.outDir /\ savedBy' = q.savedBy
          /\ hist' = Append(hist, [s |-> s, outcome |-> q.outcome])
    /\ UNCHANGED <<args, dirCreated, globbed, nii_files, fi, loads, img, name,
                   hborder, pvars, fvars, tvars>>

\* The loop of line 71 is exhausted: on to the next file of line 59.
NextFile ==
    /\ pc = "slice"
    /\ RangeDone(s)
    /\ pc' = "file"
    /\ fi' = fi + 1
    /\ UNCHANGED <<args, dirCreated, globbed, nii_files, loads, img, name,
                   hborder, s, slice, output, outDir, savedBy, hist, rng, err,
                   exitStatus, pvars, fvars, tvars>>

\* The loop of line 59 is exhausted: genpng returns.
Return ==
    /\ pc = "file"
    /\ fi > Len(nii_files)
    /\ pc' = "done"
    /\ exitStatus' = 0
    /\ UNCHANGED <<args, dirCreated, globbed, nii_files, fi, loads, img, name,
                   hborder, s, slice, output, outDir, savedBy, hist, rng, err,
                   pvars, fvars, tvars>>

Next ==
    \/ CheckArgs
    \/ MakeDirs
    \/ Glob
    \/ LoadVolume
    \/ ProcessSlice
    \/ NextFile
    \/ Return

Spec == Init /\ [][Next]_vars

-----------------------------------------------------------------------------
(* psnrstats *)

SpaceChars == {" ", "\t", "\n"}

DigitSet == {DigitChars[i] : i \in DOMAIN DigitChars}

\* The first position >= i of line that holds no character of class, or
\* Len(line) + 1: where a greedy run of class characters from i ends.
SkipChars(line, i, class) ==
    LET stops == {j \in i .. Len(line) + 1 :
                     j = Len(line) + 1 \/ line[j] \notin class}
    IN CHOOSE j \in stops : \A k \in stops : j <= k

\* \s+ at position i
Gap(line, i) ==
    LET j == SkipChars(line, i, SpaceChars)
    IN [ok |-> j > i, to |-> j]

\* (\d+\.\d+) at position i
DecimalGroup(line, i) ==
    LET a == SkipChars(line, i, DigitSet)
        c == IF a <= Len(line) THEN SkipChars(line, a + 1, DigitSet) ELSE a
    IN [ok |-> a > i /\ a <= Len(line) /\ line[a] = "." /\ c > a + 1,
        text |-> SubSeq(line, i, c - 1), to |-> c]

NoMatch == [ok |-> FALSE, groups |-> <<>>]

\* re.match(r'\s*(\d+):\s+(\d+\.\d+)\s+(\d+\.\d+)\s+(\d+\.\d+)', line): the
\* pattern is anchored at the start of the line only.
re_match(line) ==
    LET i1 == SkipChars(line, 1, SpaceChars)
        i2 == SkipChars(line, i1, DigitSet)
    IN IF ~(i2 > i1 /\ i2 <= Len(line) /\ line[i2] = ":") THEN NoMatch
       ELSE
       LET g1 == Gap(line, i2 + 1)
           v1 == DecimalGroup(line, g1.to)
       IN IF ~(g1.ok /\ v1.ok) THEN NoMatch
          ELSE
          LET g2 == Gap(line, v1.to)
              v2 == DecimalGroup(line, g2.to)
          IN IF ~(g2.ok /\ v2.ok) THEN NoMatch
             ELSE
             LET g3 == Gap(line, v2.to)
                 v3 == DecimalGroup(line, g3.to)
             IN IF ~(g3.ok /\ v3.ok) THEN NoMatch
                ELSE [ok |-> TRUE,
                      groups |-> <<SubSeq(line, i1, i2 - 1),
                                   v1.text, v2.text, v3.text>>]

DigitVal(ch) == CHOOSE v \in 0 .. 9 : DigitChars[v + 1] = ch

\* int(str) for a string of digits
RECURSIVE IntOf(_)
IntOf(str) ==
    IF str = <<>> THEN 0
    ELSE 10 * IntOf(SubSeq(str, 1, Len(str) - 1)) + DigitVal(str[Len(str)])

RECURSIVE Pow10(_)
Pow10(n) == IF n = 0 THEN 1 ELSE 10 * Pow10(n - 1)

\* float(str) for digits "." digits, as the decimal fraction it denotes.
FloatOf(str) ==
    LET dot == CHOOSE i \in DOMAIN str : str[i] = "."
        frac == SubSeq(str, dot + 1, Len(str))
    IN Fin(IntOf(SubSeq(str, 1, dot - 1)) * Pow10(Len(frac)) + IntOf(frac),
           Pow10(Len(frac)))

\* lines 6-37: the three columns and the indices of the lines that match.
parse_psnr_file(file) ==
    IF ~file.exists
    THEN [err |-> "FileNotFoundError", values |-> <<>>, indices |-> <<>>]
    ELSE
    LET Matches(line) == re_match(line).ok
        rows == SelectSeq(file.lines, Matches)
        Column(g) == [i \in 1 .. Len(rows) |-> FloatOf(re_match(rows[i]).groups[g])]
    IN [err |-> "none",
        values |-> [noisy |-> Column(2),
                    denoised_clamped |-> Column(3),
                    denoised_psnr |-> Column(4)],
        indices |-> [i \in 1 .. Len(rows) |-> IntOf(re_match(rows[i]).groups[1])]]

AddFin(a, b) == Fin(a.n * b.d + b.n * a.d, a.d * b.d)

SubFin(a, b) == Fin(a.n * b.d - b.n * a.d, a.d * b.d)

RECURSIVE SumFin(_)
SumFin(data) == IF data = <<>> THEN Zero ELSE AddFin(Head(data), SumFin(Tail(data)))

RECURSIVE InsertSorted(_, _)
InsertSorted(v, sorted) ==
    IF sorted = <<>> THEN <<v>>
    ELSE IF Lt(Head(sorted), v) THEN <<Head(sorted)>> \o InsertSorted(v, Tail(sorted))
    ELSE <<v>> \o sorted

RECURSIVE Sorted(_)
Sorted(data) ==
    IF data = <<>> THEN <<>> ELSE InsertSorted(Head(data), Sorted(Tail(data)))

\* np.percentile(data, q) for non-empty data: linear interpolation between
\* the two closest ranks.
Percentile(data, q) ==
    LET srt == Sorted(data)
        num == (Len(data) - 1) * q
        lo == (num \div 100) + 1
        fr == num % 100
    IN IF fr = 0 THEN srt[lo]
       ELSE LET step == SubFin(srt[lo + 1], srt[lo])
            IN AddFin(srt[lo], Fin(fr * step.n, 100 * step.d))

\* lines 39-57.  np.min of an empty array raises ValueError.  The standard
\* deviation, which is only printed, is not carried.
calculate_statistics(values) ==
    IF \E key \in DOMAIN values : values[key] = <<>>
    THEN [err |-> "ValueError", stats |-> <<>>]
    ELSE [err |-> "none",
          stats |-> [key \in DOMAIN values |->
             LET data == values[key]
                 srt == Sorted(data)
             IN [mean |-> Fin(SumFin(data).n, SumFin(data).d * Len(data)),
                 median |-> Percentile(data, 50),
                 min |-> srt[1],
                 max |-> srt[Len(srt)],
                 range |-> SubFin(srt[Len(srt)], srt[1]),
                 q1 |-> Percentile(data, 25),
                 q3 |-> Percentile(data, 75)]]]

\* values[key] for each key in turn: KeyError at the first key the
\* dictionary lacks.
Subscript(values, keys) ==
    IF \A i \in DOMAIN keys : keys[i] \in DOMAIN values THEN "none"
    ELSE "KeyError"

\* line 84
data_keys == <<"noisy", "denoised_1", "denoised_2">>

\* lines 77-95
plot_histograms(values) == Subscript(values, data_keys)

\* lines 103-105
comparison_keys == <<"noisy", "denoised_1", "denoised_2">>

\* lines 97-115
plot_comparison(values, indices) == Subscript(values, comparison_keys)

Chars1 == <<"1", ":", " ", "2", "0", ".", "5", " ", "3", "0", ".", "1", " ",
            "3", "1", ".", "2", "\n">>
Chars2 == <<" ", "1", "2", ":", "\t", "9", ".", "0", " ", " ", "8", ".", "5",
            " ", "7", ".", "2", "5", "x">>
Chars3 == <<"3", ":", " ", "2", "0", " ", "3", "0", ".", "1", " ", "3", "1",
            ".", "2", "\n">>
Chars4 == <<"#", " ", "p", "s", "n", "r", "\n">>
Chars5 == <<"4", " ", ":", " ", "1", ".", "0", " ", "1", ".", "0", " ", "1",
            ".", "0">>
Chars6 == <<"\n">>

\* Lines a log file can hold: "1: 20.5 30.1 31.2", one with leading
\* blanks, a tab and trailing text, one with an integer column, a comment,
\* one with a blank before the colon, an empty line.
LineSamples == {Chars1, Chars2, Chars3, Chars4, Chars5, Chars6}

\* The file at file_path: absent, or up to MaxLines lines.
LogFiles ==
    {[exists |-> FALSE, lines |-> <<>>]} \cup
    {[exists |-> TRUE, lines |-> ls] :
        ls \in UNION {[1 .. n -> LineSamples] : n \in 0 .. MaxLines}}

InitStats ==
    /\ t_pc = "start"
    /\ t_file \in LogFiles
    /\ t_values = <<>> /\ t_indices = <<>> /\ t_stats = <<>>
    /\ t_trace = <<>> /\ t_err = "none" /\ t_ret = None
    /\ IdleGenpng /\ IdlePipe /\ IdleShift

\* line 126; an exception goes to lines 140-142.
Parse ==
    /\ t_pc = "start"
    /\ LET r == parse_psnr_file(t_file)
       IN IF r.err # "none"
          THEN /\ t_pc' = "returned" /\ t_err' = r.err /\ t_ret' = 1
               /\ UNCHANGED <<t_values, t_indices, t_trace>>
          ELSE /\ t_pc' = "parsed"
               /\ t_values' = r.values /\ t_indices' = r.indices
               /\ t_trace' = Append(t_trace, "parse")
               /\ UNCHANGED <<t_err, t_ret>>
    /\ UNCHANGED <<t_file, t_stats, gvars, pvars, fvars>>

\* lines 129-132; an exception goes to lines 140-142.
Statistics ==
    /\ t_pc = "parsed"
    /\ LET r == calculate_statistics(t_values)
       IN IF r.err # "none"
          THEN /\ t_pc' = "returned" /\ t_err' = r.err /\ t_ret' = 1
               /\ UNCHANGED <<t_stats, t_trace>>
          ELSE /\ t_pc' = "printed"
               /\ t_stats' = r.stats
               /\ t_trace' = Append(t_trace, "statistics")
               /\ UNCHANGED <<t_err, t_ret>>
    /\ UNCHANGED <<t_file, t_values, t_indices, gvars, pvars, fvars>>

\* lines 135-144: the two plots, then return 0; an exception goes to lines
\* 140-142.
Plots ==
    /\ t_pc = "printed"
    /\ t_pc' = "returned"
    /\ LET h == plot_histograms(t_values)
           c == plot_comparison(t_values, t_indices)
       IN IF h # "none"
          THEN t_err' = h /\ t_ret' = 1 /\ UNCHANGED t_trace
          ELSE IF c # "none"
          THEN /\ t_err' = c /\ t_ret' = 1
               /\ t_trace' = Append(t_trace, "histograms")
          ELSE /\ t_ret' = 0
               /\ t_trace' = t_trace \o <<"histograms", "comparison">>
               /\ UNCHANGED t_err
    /\ UNCHANGED <<t_file, t_values, t_indices, t_stats, gvars, pvars, fvars>>

NextStats == Parse \/ Statistics \/ Plots

SpecStats == InitStats /\ [][NextStats]_vars

-----------------------------------------------------------------------------
(* Claims *)

InRect(ij, bx, by, w, h) ==
    /\ bx <= ij[1] /\ ij[1] < bx + w
    /\ by <= ij[2] /\ ij[2] < by + h

\* The genpng run has loaded a volume; hist is that volume's depth loop.
Loaded == img.vol.fill # "none"

Depth == img.vol.shape[3]

Fits == img.vol.shape[1] <= OUT_RESOLUTION /\ img.vol.shape[2] <= OUT_RESOLUTION

LastStep == hist[Len(hist)]

Handled == {"written", "skipped"}

CountOf(o) == Cardinality({i \in DOMAIN hist : hist[i].outcome = o})

\* The depth loop of the loaded volume ran to the end of its range.
LoopOver ==
    /\ Loaded
    /\ \/ pc \in {"file", "done"}
       \/ pc = "slice" /\ s >= slice_max
       \/ pc = "crashed" /\ hist # <<>> /\ LastStep.outcome \in Handled

EvenSliceVisited ==
    /\ Loaded /\ args.undersample /\ hist # <<>>
    /\ LastStep.s < Depth
    /\ img.vol.shape[1] % 2 = 0 \/ img.vol.shape[2] % 2 = 0

\* C6 as the spec states it: with undersampling on, a slice with an even
\* length on either axis fails with ShapeError and produces no raster.
C6_EvenSliceFails ==
    EvenSliceVisited =>
       /\ pc = "crashed" /\ err = "ShapeError"
       /\ OutName(name, LastStep.s) \notin outDir

\* C6: with undersampling on, a slice with an even length on either axis
\* passes through undersample_kspace without an error: the result has the
\* slice's shape and no negative cell, and the slice is then composited
\* and written or skipped like any other (or stopped by the compositor or
\* the writer, never by the masker).
C6_EvenSliceMasked ==
    EvenSliceVisited =>
       /\ slice.shape = <<img.vol.shape[1], img.vol.shape[2]>>
       /\ \A ij \in DOMAIN slice.a : ~Lt(slice.a[ij], Zero)
       /\ LastStep.outcome \in {"written", "skipped", "IOError", "ValueError"}
       /\ Fits => LastStep.outcome \in {"written", "skipped", "IOError"}

\* With undersampling on, a slice with an even axis was masked and written.
C6_Witness ==
    /\ EvenSliceVisited /\ Fits
    /\ LastStep.outcome = "written"
    /\ OutName(name, LastStep.s) \in outDir

\* C7: when either directory argument is absent the run ends with exit
\* status 1 before any work: no directory created, no directory listed, no
\* volume loaded, no file written, and it never returns normally.
C7_MissingArgsExit ==
    (args.outdir = None \/ args.ixi_dir = None) =>
       /\ pc \in {"start", "exited"}
       /\ pc = "exited" => exitStatus = 1
       /\ pc # "done"
       /\ ~dirCreated /\ ~globbed /\ loads = 0 /\ outDir = {}

\* The run has exited with only the input directory missing.
C7_Witness ==
    /\ pc = "exited" /\ exitStatus = 1
    /\ args.outdir # None /\ args.ixi_dir = None

\* C8 as the spec states it: a failed load or write of one volume does not
\* stop the batch, so a run that stopped on an IOError has no later volume
\* left unprocessed.
C8_BatchContinues ==
    (pc = "crashed" /\ err = "IOError") => fi >= Len(nii_files)

\* C9 as the spec states it: no two distinct (volume, index) pairs are
\* written under the same output name.
C9_NamesDistinct ==
    \A r1, r2 \in savedBy : r1.name = r2.name => r1 = r2

\* C3: for a slice of shape (w, h) with w, h <= OUT_RESOLUTION the compositor
\* uses the border (OUT_RESOLUTION - dim) // 2 on each axis, does not fail,
\* the canvas cell [bx + i, by + j] is slice[i, j] and every other canvas
\* cell is exactly zero; for 101 and 256 the border is 77.
C3_CompositorCenters ==
    /\ HalfBorder(256, 101) = 77
    /\ LET w == Rows(p_slice)
           h == Cols(p_slice)
           bx == (OUT_RESOLUTION - w) \div 2
           by == (OUT_RESOLUTION - h) \div 2
       IN (w <= OUT_RESOLUTION /\ h <= OUT_RESOLUTION) =>
            /\ hborderOf(p_slice.shape) = <<bx, by>>
            /\ p_pc # "failed"
            /\ p_pc \in {"composited", "clamped"} =>
                 /\ p_canvas.shape = <<OUT_RESOLUTION, OUT_RESOLUTION>>
                 /\ \A ij \in Cells(OUT_RESOLUTION, OUT_RESOLUTION) :
                      p_canvas.a[ij] =
                        IF InRect(ij, bx, by, w, h)
                        THEN p_slice.a[<<ij[1] - bx, ij[2] - by>>]
                        ELSE Zero

\* A slice narrower than it is high, with different borders on the two
\* axes, has been composited.
C3_Witness ==
    /\ p_pc = "composited"
    /\ Rows(p_slice) < Cols(p_slice)
    /\ Cols(p_slice) < OUT_RESOLUTION
    /\ hborderOf(p_slice.shape)[1] # hborderOf(p_slice.shape)[2]
    /\ \E ij \in DOMAIN p_slice.a : p_slice.a[ij] # Zero

\* clip(v, 0, 1) * 255 of a value that is not nan, stated by cases.
ClipTimes255(v) ==
    IF Lt(v, Zero) THEN Zero
    ELSE IF Gt(v, One) THEN Fin(255, 1)
    ELSE Fin(255 * v.n, v.d)

C5_ShiftRoundTrip ==
    /\ f_pc = "done" => f_z = f_x
    /\ (f_pc # "idle" /\ Rows(f_x) % 2 = 1 /\ Cols(f_x) % 2 = 1)
          => f_pc # "failed"

\* An array with more than one row and column went through both shifts, and
\* the forward shift moved its cells.
C5_Witness ==
    /\ f_pc = "done"
    /\ Rows(f_x) > 1 /\ Cols(f_x) > 1
    /\ f_y # f_x

\* C10 as the spec states it: every key the two plot functions read is a
\* key parse_psnr_file produces, and main on a log with the well-formed
\* line "1: 20.5 30.1 31.2" completes parse, statistics, histograms and
\* comparison in that order and returns 0.
C10_PlotsComplete ==
    (t_pc = "returned" /\ t_file.exists
       /\ \E i \in DOMAIN t_file.lines : t_file.lines[i] = Chars1) =>
       /\ \A i \in DOMAIN data_keys : data_keys[i] \in DOMAIN t_values
       /\ \A i \in DOMAIN comparison_keys :
             comparison_keys[i] \in DOMAIN t_values
       /\ t_trace = <<"parse", "statistics", "histograms", "comparison">>
       /\ t_ret = 0

=============================================================================
